---- MODULE Spec2Model ----
(***************************************************************************)
(* EV Population Dashboard: the useDataLoader hook (hooks/useDataLoader)   *)
(* and the App component's data pipeline (src/App.jsx).                    *)
(*                                                                         *)
(* JavaScript values are tagged records of one shape, so that values of    *)
(* different JavaScript types can be compared: t is the type tag, n and h  *)
(* carry a number n + h/2 (h = 1 marks a value ending in .5), s carries a  *)
(* string as a sequence of one-character strings.                          *)
(***************************************************************************)
EXTENDS Integers, Sequences, FiniteSets

VARIABLES path, raw, loading, error, requests, filters

vars == <<path, raw, loading, error, requests, filters>>

-----------------------------------------------------------------------------
(* Bounds of the model *)

MaxRequests == 3
MaxLoaderRows == 1
MaxRows == 3

-----------------------------------------------------------------------------
(* JavaScript values *)

Undefined == [t |-> "undefined", n |-> 0, h |-> 0, s |-> <<>>]
Null == [t |-> "null", n |-> 0, h |-> 0, s |-> <<>>]
NaN == [t |-> "NaN", n |-> 0, h |-> 0, s |-> <<>>]
Bool(b) == [t |-> "boolean", n |-> IF b THEN 1 ELSE 0, h |-> 0, s |-> <<>>]
Num(k) == [t |-> "number", n |-> k, h |-> 0, s |-> <<>>]
Half(k) == [t |-> "number", n |-> k, h |-> 1, s |-> <<>>]
Str(chars) == [t |-> "string", n |-> 0, h |-> 0, s |-> chars]

(* UTF-16 code units of the characters the model uses, in code order. *)
Alphabet ==
    <<" ", "-", ".", "/", "0", "1", "2", "3", "4", "5", "6", "7", "8", "9",
      "A", "B", "C", "E", "F", "K", "M", "N", "O", "S", "T", "U", "V", "W", "X",
      "a", "b", "c", "d", "e", "f", "h", "i", "k", "l", "n", "o", "r", "s",
      "t", "u", "w", "y">>

Code(c) == CHOOSE i \in 1..Len(Alphabet) : Alphabet[i] = c

Digits == <<"0", "1", "2", "3", "4", "5", "6", "7", "8", "9">>

IsDigit(c) == \E i \in 1..10 : Digits[i] = c

DigitVal(c) == (CHOOSE i \in 1..10 : Digits[i] = c) - 1

IsDigits(s) == Len(s) > 0 /\ \A i \in 1..Len(s) : IsDigit(s[i])

RECURSIVE DigitsVal(_)
DigitsVal(s) ==
    IF s = <<>> THEN 0
    ELSE 10 * DigitsVal(SubSeq(s, 1, Len(s) - 1)) + DigitVal(s[Len(s)])

RECURSIVE NatToDigits(_)
NatToDigits(k) ==
    IF k < 10 THEN <<Digits[k + 1]>>
    ELSE NatToDigits(k \div 10) \o <<Digits[(k % 10) + 1]>>

(* The abstract operation ToBoolean: the truthiness `||` and filter() test. *)
Truthy(v) ==
    CASE v.t = "undefined" -> FALSE
      [] v.t = "null" -> FALSE
      [] v.t = "NaN" -> FALSE
      [] v.t = "boolean" -> v.n = 1
      [] v.t = "number" -> ~(v.n = 0 /\ v.h = 0)
      [] v.t = "string" -> v.s # <<>>

(* StringToNumber on the decimal literals the model can hold: an optional  *)
(* sign, digits, an optional ".5"; the empty string is 0; all else is NaN. *)
StringToNumber(s) ==
    IF s = <<>> THEN Num(0)
    ELSE IF IsDigits(s) THEN Num(DigitsVal(s))
    ELSE IF Head(s) = "-" /\ IsDigits(Tail(s)) THEN Num(0 - DigitsVal(Tail(s)))
    ELSE IF Len(s) > 2 /\ SubSeq(s, Len(s) - 1, Len(s)) = <<".", "5">>
            /\ IsDigits(SubSeq(s, 1, Len(s) - 2))
         THEN Half(DigitsVal(SubSeq(s, 1, Len(s) - 2)))
    ELSE NaN

(* Number(v) *)
Number(v) ==
    CASE v.t = "undefined" -> NaN
      [] v.t = "null" -> Num(0)
      [] v.t = "NaN" -> NaN
      [] v.t = "boolean" -> Num(v.n)
      [] v.t = "number" -> v
      [] v.t = "string" -> StringToNumber(v.s)

(* String(v), as a sequence of characters *)
ToString(v) ==
    CASE v.t = "undefined" -> <<"u", "n", "d", "e", "f", "i", "n", "e", "d">>
      [] v.t = "null" -> <<"n", "u", "l", "l">>
      [] v.t = "NaN" -> <<"N", "a", "N">>
      [] v.t = "boolean" -> IF v.n = 1 THEN <<"t", "r", "u", "e">>
                            ELSE <<"f", "a", "l", "s", "e">>
      [] v.t = "number" ->
            (IF v.n < 0 THEN <<"-">> \o NatToDigits(0 - v.n) ELSE NatToDigits(v.n))
            \o (IF v.h = 1 THEN <<".", "5">> ELSE <<>>)
      [] v.t = "string" -> v.s

(* An array value; its elements are the sequence rows. *)
Array(rows) == [t |-> "object", rows |-> rows]

(* a || b *)
Or(a, b) == IF Truthy(a) THEN a ELSE b

(* a === b *)
StrictEquals(a, b) == a.t # "NaN" /\ b.t # "NaN" /\ a = b

(* Twice the numeric value of a number, an integer the model can compare. *)
Twice(v) == 2 * v.n + v.h

(* s < t for strings: by code units, a proper prefix first. *)
RECURSIVE StringLess(_, _)
StringLess(s, u) ==
    IF u = <<>> THEN FALSE
    ELSE IF s = <<>> THEN TRUE
    ELSE IF Head(s) = Head(u) THEN StringLess(Tail(s), Tail(u))
    ELSE Code(Head(s)) < Code(Head(u))

(* The literals of App.jsx *)
All == Str(<<"A", "l", "l">>)
Unknown == Str(<<"U", "n", "k", "n", "o", "w", "n">>)
Other == Str(<<"O", "t", "h", "e", "r">>)

-----------------------------------------------------------------------------
(* Inputs: the rows Papa.parse can deliver with header and dynamicTyping   *)
(* set: a field is a number, a boolean, a string, null (an empty cell) or  *)
(* undefined (the column is missing).                                      *)

Row(my, st, mk, md, vt, rg) ==
    [ModelYear |-> my, State |-> st, Make |-> mk, Model |-> md,
     EVType |-> vt, ElectricRange |-> rg]

WA == Str(<<"W", "A">>)
CA == Str(<<"C", "A">>)
Tesla == Str(<<"T", "e", "s", "l", "a">>)
ModelS == Str(<<"M", "o", "d", "e", "l", " ", "S">>)
BEV == Str(<<"B", "E", "V">>)
Bad == Str(<<"b", "a", "d">>)

RowPool ==
    {Row(Num(2020), WA, Tesla, ModelS, BEV, Num(150)),
     Row(Num(2019), WA, Tesla, ModelS, BEV, Num(0)),
     Row(Num(2020), CA, Tesla, Null, BEV, Num(150)),
     Row(Num(2019), Num(5), Null, ModelS, BEV, Bad),
     Row(Half(2020), WA, Undefined, Undefined, Str(<<>>), Null),
     Row(Bool(TRUE), Null, Tesla, ModelS, Null, Num(0 - 5)),
     Row(Bad, CA, Tesla, ModelS, BEV, Num(150)),
     Row(Null, Str(<<>>), Str(<<>>), Str(<<>>), Undefined, Undefined)}

RECURSIVE SeqsOfLen(_, _)
SeqsOfLen(S, k) ==
    IF k = 0 THEN {<<>>}
    ELSE {Append(q, x) : q \in SeqsOfLen(S, k - 1), x \in S}

SeqsUpTo(S, k) == UNION {SeqsOfLen(S, j) : j \in 0..k}

LoaderDatasets == SeqsUpTo(RowPool, MaxLoaderRows)
Datasets == SeqsUpTo(RowPool, MaxRows)

Paths == {"/data/ev_data.csv", "/data/other.csv"}
AppPath == "/data/ev_data.csv"

(* err.message of the Error Papa hands to the error callback *)
Messages == {Str(<<"N", "o", "t", " ", "F", "o", "u", "n", "d">>), Str(<<>>)}

-----------------------------------------------------------------------------
(* useDataLoader *)

Request(p) == [path |-> p, status |-> "inflight", message |-> Null]

TypeOK ==
    /\ path \in Paths
    /\ loading \in BOOLEAN
    /\ error \in {Null} \cup Messages
    /\ Len(requests) <= MaxRequests

(* useState(null), useState(true), useState(null); no effect has run yet *)
InitLoader(p) ==
    /\ path = p
    /\ raw = Null
    /\ loading = TRUE
    /\ error = Null
    /\ requests = <<>>
    /\ filters = [year |-> All, state |-> All]

(* useEffect, first run: Papa.parse(path, {download: true, ...}) *)
Mount ==
    /\ requests = <<>>
    /\ requests' = <<Request(path)>>
    /\ UNCHANGED <<path, raw, loading, error, filters>>

(* A re-render with another path: the effect runs again and parses the new *)
(* path; the effect has no cleanup, so earlier requests stay in flight.    *)
PathChange(p) ==
    /\ requests # <<>>
    /\ Len(requests) < MaxRequests
    /\ p # path
    /\ path' = p
    /\ requests' = Append(requests, Request(p))
    /\ UNCHANGED <<raw, loading, error, filters>>

(* Mutant: the complete callback is delivered again for a finished request *)
OnCompleteRepeated(i, rows) ==
    /\ i \in 1..Len(requests)
    /\ requests[i].status \in {"inflight", "complete"}
    /\ requests' = [requests EXCEPT ![i].status = "complete"]
    /\ raw' = Array(rows)
    /\ loading' = FALSE
    /\ UNCHANGED <<path, error, filters>>

(* complete: (results) => { setRaw(results.data); setLoading(false); } *)
OnComplete(i, rows) ==
    /\ i \in 1..Len(requests)
    /\ requests[i].status = "inflight"
    /\ requests' = [requests EXCEPT ![i].status = "complete"]
    /\ raw' = Array(rows)
    /\ loading' = FALSE
    /\ UNCHANGED <<path, error, filters>>

(* Mutant: the error callback parses the path again *)
OnErrorRetry(i, m) ==
    /\ i \in 1..Len(requests)
    /\ requests[i].status = "inflight"
    /\ requests' = Append([requests EXCEPT ![i].status = "error", ![i].message = m],
                          Request(requests[i].path))
    /\ error' = m
    /\ loading' = FALSE
    /\ UNCHANGED <<path, raw, filters>>

(* error: (err) => { setError(err.message); setLoading(false); } *)
OnError(i, m) ==
    /\ i \in 1..Len(requests)
    /\ requests[i].status = "inflight"
    /\ requests' = [requests EXCEPT ![i].status = "error", ![i].message = m]
    /\ error' = m
    /\ loading' = FALSE
    /\ UNCHANGED <<path, raw, filters>>

-----------------------------------------------------------------------------
(* Array.prototype.sort: stable, ordered by the comparator named cmp.      *)
(* Greater(cmp, a, b) is "the comparator puts a after b".                  *)

Greater(cmp, a, b) ==
    CASE cmp = "a-b" -> Twice(a) > Twice(b)
      [] cmp = "a.year-b.year" -> Twice(a.year) > Twice(b.year)
      [] cmp = "b.count-a.count" -> b.count > a.count
      [] cmp = "default" -> StringLess(ToString(b), ToString(a))
      [] cmp = "index" -> DigitsVal(a.key) > DigitsVal(b.key)

RECURSIVE Insert(_, _, _)
Insert(cmp, x, sorted) ==
    IF sorted = <<>> THEN <<x>>
    ELSE IF Greater(cmp, Head(sorted), x) THEN <<x>> \o sorted
    ELSE <<Head(sorted)>> \o Insert(cmp, x, Tail(sorted))

RECURSIVE Sort(_, _)
Sort(cmp, arr) ==
    IF arr = <<>> THEN <<>>
    ELSE Insert(cmp, arr[Len(arr)], Sort(cmp, SubSeq(arr, 1, Len(arr) - 1)))

(* Array.from(new Set(arr)): the distinct values in order of first occurrence *)
RECURSIVE Distinct(_)
Distinct(arr) ==
    IF arr = <<>> THEN <<>>
    ELSE LET front == Distinct(SubSeq(arr, 1, Len(arr) - 1))
             x == arr[Len(arr)]
         IN IF \E i \in 1..Len(front) : front[i] = x THEN front
            ELSE Append(front, x)

(* A plain object used as a map: its properties in order of creation.      *)
(* map[k] = (map[k] || 0) + 1, the key converted to a string.              *)
Increment(map, k) ==
    IF \E i \in 1..Len(map) : map[i].key = k
    THEN [i \in 1..Len(map) |->
            IF map[i].key = k THEN [map[i] EXCEPT !.value = @ + 1] ELSE map[i]]
    ELSE Append(map, [key |-> k, value |-> 1])

RECURSIVE Tally(_)
Tally(keys) ==
    IF keys = <<>> THEN <<>>
    ELSE Increment(Tally(SubSeq(keys, 1, Len(keys) - 1)), keys[Len(keys)])

(* A property key that is an array index: the canonical form of an integer *)
(* below 2^32 - 1; every digit string of up to 9 digits is below it, and   *)
(* the model holds no longer one.                                          *)
IsArrayIndex(k) ==
    /\ IsDigits(k)
    /\ (Len(k) = 1 \/ k[1] # "0")
    /\ Len(k) <= 9

(* Object.entries(map): array-index keys ascending, then the other keys in *)
(* order of creation.                                                      *)
ObjectEntries(map) ==
    Sort("index", SelectSeq(map, LAMBDA e : IsArrayIndex(e.key)))
    \o SelectSeq(map, LAMBDA e : ~IsArrayIndex(e.key))

-----------------------------------------------------------------------------
(* App: the derivations *)

TopN == 10

CleanRow(r) ==
    [year |-> Or(Number(r.ModelYear), Null),
     state |-> Or(r.State, Unknown),
     make |-> Or(r.Make, Unknown),
     model |-> Or(r.Model, Unknown),
     vehicle_type |-> Or(r.EVType, Other),
     battery_capacity_kwh |-> Or(Number(r.ElectricRange), Num(0))]

Clean(r) ==
    IF r.t = "null" THEN <<>>
    ELSE SelectSeq([i \in 1..Len(r.rows) |-> CleanRow(r.rows[i])],
                   LAMBDA d : Truthy(d.year))

Keeps(f, d) ==
    /\ (StrictEquals(f.year, All) \/ StrictEquals(d.year, Number(f.year)))
    /\ (StrictEquals(f.state, All) \/ StrictEquals(d.state, f.state))

(* Mutant: the selected year is compared as the string the select gives *)
FilteredDataNoNumber(d, f) ==
    SelectSeq(d, LAMBDA x :
        /\ (StrictEquals(f.year, All) \/ StrictEquals(x.year, f.year))
        /\ (StrictEquals(f.state, All) \/ StrictEquals(x.state, f.state)))

FilteredData(d, f) == SelectSeq(d, LAMBDA x : Keeps(f, x))

(* Mutant: map[d.year] = 1, the count is not accumulated *)
YearlyOverwrite(fd) ==
    LET map == Tally([i \in 1..Len(fd) |-> ToString(fd[i].year)])
        entries == ObjectEntries(map)
    IN Sort("a.year-b.year",
            [i \in 1..Len(entries) |->
                [year |-> Number(Str(entries[i].key)), count |-> 1]])

Yearly(fd) ==
    LET map == Tally([i \in 1..Len(fd) |-> ToString(fd[i].year)])
        entries == ObjectEntries(map)
    IN Sort("a.year-b.year",
            [i \in 1..Len(entries) |->
                [year |-> Number(Str(entries[i].key)), count |-> entries[i].value]])

Slice(arr, k) == SubSeq(arr, 1, IF Len(arr) < k THEN Len(arr) ELSE k)

TopStates(fd) ==
    LET map == Tally([i \in 1..Len(fd) |-> ToString(fd[i].state)])
        entries == ObjectEntries(map)
    IN Slice(Sort("b.count-a.count",
                  [i \in 1..Len(entries) |->
                      [state |-> Str(entries[i].key), count |-> entries[i].value]]),
             TopN)

VehicleTypes(fd) ==
    LET map == Tally([i \in 1..Len(fd) |-> ToString(fd[i].vehicle_type)])
        entries == ObjectEntries(map)
    IN [i \in 1..Len(entries) |->
           [type |-> Str(entries[i].key), value |-> entries[i].value]]

Years(d) == <<All>> \o Sort("a-b", Distinct([i \in 1..Len(d) |-> d[i].year]))

States(d) == <<All>> \o Sort("default", Distinct([i \in 1..Len(d) |-> d[i].state]))

data == Clean(raw)
filteredData == FilteredData(data, filters)
total == Len(filteredData)
yearly == Yearly(filteredData)
topStates == TopStates(filteredData)
vehicleTypes == VehicleTypes(filteredData)
(* Mutant: the year options are taken from the filtered records *)
yearsOfFiltered == Years(FilteredData(Clean(raw), filters))
years == Years(data)
states == States(data)

(* The dashboard, and with it the two selects, is rendered only past the   *)
(* two early returns: if (loading) ...; if (error) ...                     *)
Rendered == loading = FALSE /\ ~Truthy(error)

(* The value attribute of <option value={y}>, which e.target.value returns *)
OptionValue(y) == Str(ToString(y))

OptionValues(opts) == {OptionValue(opts[i]) : i \in 1..Len(opts)}

(* onChange={e=>setFilters(f=>({...f, year:e.target.value}))} *)
ChangeYear ==
    /\ Rendered
    /\ \E v \in OptionValues(years) : filters' = [filters EXCEPT !.year = v]
    /\ UNCHANGED <<path, raw, loading, error, requests>>

(* onChange={e=>setFilters(f=>({...f, state:e.target.value}))} *)
ChangeState ==
    /\ Rendered
    /\ \E v \in OptionValues(states) : filters' = [filters EXCEPT !.state = v]
    /\ UNCHANGED <<path, raw, loading, error, requests>>

-----------------------------------------------------------------------------
(* Specifications *)

Init == \E p \in Paths : InitLoader(p)

Next ==
    \/ Mount
    \/ \E p \in Paths : PathChange(p)
    \/ \E i \in 1..MaxRequests, rows \in LoaderDatasets : OnComplete(i, rows)
    \/ \E i \in 1..MaxRequests, m \in Messages : OnError(i, m)

Spec == Init /\ [][Next]_vars

(* The App: useDataLoader("/data/ev_data.csv"), the path never changes. *)
InitApp == InitLoader(AppPath)

NextApp ==
    \/ Mount
    \/ \E rows \in Datasets : OnComplete(1, rows)
    \/ \E m \in Messages : OnError(1, m)
    \/ ChangeYear
    \/ ChangeState

SpecApp == InitApp /\ [][NextApp]_vars

-----------------------------------------------------------------------------
(* Properties *)

IsNull(v) == v.t = "null"

Range(f) == {f[i] : i \in 1..Len(f)}

(* C1: in every reachable state of the loader exactly one of three holds:   *)
(* pending (loading, no rows, no error), success (not loading, rows, no     *)
(* error), failure (not loading, an error message, no rows); rows and an    *)
(* error message are never exposed together.                                *)
TriStateStatus ==
    \/ (loading = TRUE /\ IsNull(raw) /\ IsNull(error))
    \/ (loading = FALSE /\ ~IsNull(raw) /\ IsNull(error))
    \/ (loading = FALSE /\ IsNull(raw) /\ error.t = "string")

(* C2: in the App the raw dataset is written once, by the step in which the *)
(* load completes, and never again; once it is written only the filter      *)
(* selection changes, and the selection changes only while the selects are  *)
(* rendered, one field at a time, to a value one of the selects offers.     *)
RawWrittenOnceThenOnlyFilters ==
    [][ /\ (~IsNull(raw) => UNCHANGED <<raw, loading, error, requests, path>>)
        /\ (raw' # raw =>
                /\ IsNull(raw) /\ loading = TRUE /\ loading' = FALSE
                /\ requests[1].status = "inflight"
                /\ requests'[1].status = "complete")
        /\ (filters' # filters =>
                /\ Rendered
                /\ UNCHANGED <<raw, loading, error, requests, path>>
                /\ \/ (filters'.state = filters.state
                        /\ filters'.year \in OptionValues(years))
                   \/ (filters'.year = filters.year
                        /\ filters'.state \in OptionValues(states)))
      ]_vars

RawWrittenAndFiltered ==
    /\ ~IsNull(raw)
    /\ requests[1].status = "complete"
    /\ filters.year # All
    /\ filters.state # All

NumericLooking(v) ==
    \/ v.t = "number"
    \/ (v.t = "string" /\ v.s # <<>> /\ StringToNumber(v.s).t = "number")

InvalidYear(v) == ~NumericLooking(v) \/ ~Truthy(Number(v))

CleanDropsExactlyInvalidYears ==
    ~IsNull(raw) =>
        LET kept == SelectSeq(raw.rows, LAMBDA r : ~InvalidYear(r.ModelYear))
        IN /\ Len(data) <= Len(raw.rows)
           /\ Len(data) = Len(kept)
           /\ \A i \in 1..Len(data) :
                 /\ data[i].year.t = "number"
                 /\ data[i].year.h = 0
                 /\ i <= Len(kept) => data[i].year = Number(kept[i].ModelYear)

(* C5: every cleaned record has a range that is a number >= 0, and a state, *)
(* make, model and vehicle type that are not the empty string.              *)
CleanedFieldsDefaulted ==
    \A i \in 1..Len(data) :
        /\ data[i].battery_capacity_kwh.t = "number"
        /\ Twice(data[i].battery_capacity_kwh) >= 0
        /\ data[i].state # Str(<<>>)
        /\ data[i].make # Str(<<>>)
        /\ data[i].model # Str(<<>>)
        /\ data[i].vehicle_type # Str(<<>>)

(* C6: the filtered set holds exactly the cleaned records, in their order,  *)
(* whose year is the numeric value of the selected year (or the year        *)
(* selection is "All") and whose state is the selected state (or the state  *)
(* selection is "All"); with both "All" it is the cleaned set itself.       *)
Selected(f, d) ==
    /\ (f.year = All \/ d.year = Number(f.year))
    /\ (f.state = All \/ d.state = f.state)

FilterKeepsExactlyTheMatching ==
    LET idx == {i \in 1..Len(data) : Selected(filters, data[i])}
        nth(k) == CHOOSE i \in idx : Cardinality({j \in idx : j < i}) = k - 1
    IN /\ Len(filteredData) = Cardinality(idx)
       /\ \A k \in 1..Len(filteredData) : filteredData[k] = data[nth(k)]
       /\ (filters.year = All /\ filters.state = All => filteredData = data)

FilteredProperSubset ==
    /\ filters.year # All
    /\ filters.state # All
    /\ Len(filteredData) >= 1
    /\ Len(filteredData) < Len(data)

(* C7: the yearly aggregate has one entry per distinct year of the filtered *)
(* set, strictly ascending by year, and its counts sum to the size of the   *)
(* filtered set.                                                            *)
RECURSIVE SumCounts(_)
SumCounts(entries) ==
    IF entries = <<>> THEN 0
    ELSE Head(entries).count + SumCounts(Tail(entries))

YearlyAscendingAndComplete ==
    LET ys == {filteredData[i].year : i \in 1..Len(filteredData)}
    IN /\ Len(yearly) = Cardinality(ys)
       /\ {yearly[k].year : k \in 1..Len(yearly)} = ys
       /\ \A k \in 1..Len(yearly) - 1 :
             Twice(yearly[k].year) < Twice(yearly[k + 1].year)
       /\ SumCounts(yearly) = Len(filteredData)

YearlySeveralYears ==
    /\ Len(yearly) >= 2
    /\ \E k \in 1..Len(yearly) : yearly[k].count >= 2

(* C8: topStates is the first 10 of the per-state counts sorted by          *)
(* descending count, states of equal count in the order in which they were  *)
(* first met in the filtered set.                                           *)
TopStatesStableByFirstSeen ==
    LET seen == Distinct([i \in 1..Len(filteredData) |-> filteredData[i].state])
        first(s) == CHOOSE i \in 1..Len(seen) : Str(ToString(seen[i])) = s
        count(s) == Cardinality({i \in 1..Len(filteredData) :
                                    Str(ToString(filteredData[i].state)) = s})
        names == {Str(ToString(seen[i])) : i \in 1..Len(seen)}
        before(a, b) == count(a) > count(b)
                        \/ (count(a) = count(b) /\ first(a) < first(b))
        top == {topStates[k].state : k \in 1..Len(topStates)}
    IN /\ Len(topStates) = (IF Cardinality(names) < TopN
                            THEN Cardinality(names) ELSE TopN)
       /\ top \subseteq names
       /\ \A k \in 1..Len(topStates) :
             topStates[k].count = count(topStates[k].state)
       /\ \A k \in 1..Len(topStates) - 1 :
             /\ topStates[k].count >= topStates[k + 1].count
             /\ before(topStates[k].state, topStates[k + 1].state)
       /\ \A a \in top, b \in names \ top : before(a, b)

(* C9: each option list is "All" followed by the distinct years ascending,  *)
(* respectively the distinct states in lexicographic order, of the cleaned  *)
(* dataset, whatever the filter selection is, and a change of the filter    *)
(* selection leaves the dataset, hence both lists, as they are.             *)
OptionListsOk ==
    /\ years[1] = All
    /\ states[1] = All
    /\ {years[i] : i \in 2..Len(years)} = {data[i].year : i \in 1..Len(data)}
    /\ {states[i] : i \in 2..Len(states)} = {data[i].state : i \in 1..Len(data)}
    /\ Cardinality({years[i] : i \in 2..Len(years)}) = Len(years) - 1
    /\ Cardinality({states[i] : i \in 2..Len(states)}) = Len(states) - 1
    /\ \A i \in 2..Len(years) - 1 : Twice(years[i]) < Twice(years[i + 1])
    /\ \A i \in 2..Len(states) - 1 :
          ~StringLess(ToString(states[i + 1]), ToString(states[i]))

OptionsDependOnCleanedDataOnly ==
    /\ []OptionListsOk
    /\ [][filters' # filters => raw' = raw]_vars

OptionsUnderSelection ==
    /\ Len(years) >= 3
    /\ Len(states) >= 3
    /\ filters.year # All
    /\ filters.state # All

(* C10: selecting any offered year, respectively state, other than "All",   *)
(* with the other filter at "All", gives a non-empty filtered set that      *)
(* holds every cleaned record whose year, respectively state, made the      *)
(* option.                                                                  *)
EveryOptionSelectsItsRecords ==
    /\ \A i \in 2..Len(years) :
          LET fd == FilteredData(data, [year |-> OptionValue(years[i]), state |-> All])
          IN /\ fd # <<>>
             /\ \A j \in 1..Len(data) : data[j].year = years[i] => data[j] \in Range(fd)
    /\ \A i \in 2..Len(states) :
          LET fd == FilteredData(data, [year |-> All, state |-> OptionValue(states[i])])
          IN /\ fd # <<>>
             /\ \A j \in 1..Len(data) : data[j].state = states[i] => data[j] \in Range(fd)

====
